---- MODULE Spec2Model ----
(***************************************************************************)
(* A model of the Symi Modbus hub (custom_components/symi_modbus):          *)
(* ModbusHub with its asyncio lock, the recurring poll timer, the          *)
(* per-slave poll windows, the state cache, the subscriber list and the    *)
(* write path, together with the config-entry setup and unload code.       *)
(*                                                                         *)
(* One action is one uninterrupted run of a coroutine on the event loop:   *)
(* from the point where it is resumed to the next await at which it        *)
(* suspends.  A job handed to the executor (_pymodbus_call) is on the wire *)
(* from the step that submits it to the step that resumes the awaiting     *)
(* coroutine with its result.                                              *)
(***************************************************************************)
EXTENDS Integers, Sequences, FiniteSets, TLC

VARIABLES
    hub_state,       \* the setup's progress: "new" the hub is constructed,
                     \* "connecting" _pymodbus_connect has run and async_setup
                     \* is to be resumed, "ready" | "failed" the setup is over
    connect_job,     \* the outcome of _pymodbus_connect that async_setup is to be
                     \* resumed with, "none" when no such job is pending
    hass_data,       \* TRUE iff hass.data[DOMAIN][hub_id] is the hub
    unsub_poll,      \* TRUE iff the recurring poll timer is registered and live
    client,          \* self._client: "none" | "open" | "closed" (socket state)
    closing,         \* TRUE while async_close awaits the executor's _pymodbus_close
    delay,           \* self._delay, milliseconds
    locked,          \* self._lock is held
    waiters,         \* self._lock's queue of suspended acquirers, oldest first
    slaves_to_poll,  \* self._slaves_to_poll, in dict insertion order
    slave_data,      \* self._slave_data: slave -> (address -> BOOLEAN)
    callbacks,       \* self._callbacks, in registration order
    tick,            \* the running invocations of async_poll_slaves
    writer,          \* the running write_coil calls and write services
    second,          \* async_setup_entry of a second config entry with the same
                     \* hub_id: "idle" | "reloading" (it found the hub_id taken
                     \* and awaits async_reload) | "connecting" (it found the
                     \* hub_id free, made a hub of its own and awaits its setup)
    second_data,     \* TRUE iff hass.data[DOMAIN][hub_id] is the second entry's hub
    platform_task,   \* TRUE iff the task forwarding the entry to the switch
                     \* platform has been created and has not run yet
    second_task,     \* the tasks forwarding the second entry to the switch
                     \* platform, created and not run yet: their number
    second_setups,   \* history: the setups of the second entry that stored
                     \* its hub, so far
    seen,            \* history: the state cache as each running tick found it
                     \* when the timer started it
    ev               \* what the last step did, as seen from outside the hub

vars == <<hub_state, connect_job, hass_data, unsub_poll, client, closing, delay, locked,
          waiters, slaves_to_poll, slave_data, callbacks, tick, writer,
          second, second_data, platform_task, second_task, second_setups, seen, ev>>

----------------------------------------------------------------------------
(* Bounds of the model. *)

MaxAddr == 1          \* coil addresses are 0..MaxAddr
MaxBits == 1          \* a read response carries 0..MaxBits bits
MaxAddrList == 2      \* longest "addresses" list kept for one slave
MaxCallbacks == 1     \* subscribers registered with add_callback
MaxSubscribers == 2   \* the same, where the order of the subscribers matters
MaxRegList == 3       \* the same as MaxAddrList, where the registry is the subject
MaxTasks == 1         \* setups of the second entry that store its hub

Slaves == {1, 2}
Addrs == 0..MaxAddr
Ticks == {1, 2}       \* invocations of async_poll_slaves that can be alive at once
Writers == {1}
DelayMs == 5          \* an inter-slave delay, when one is configured
WriteKinds == {"write_coil", "service"}
WriteAddrs == {0}

\* Marks a key that a dict does not have (config["start"], config["count"]).
NoKey == -1

RECURSIVE SeqsUpTo(_, _)
SeqsUpTo(S, n) ==
    IF n = 0 THEN {<<>>}
    ELSE LET shorter == SeqsUpTo(S, n - 1)
         IN  shorter \cup {Append(q, x) : q \in {r \in shorter : Len(r) = n - 1}, x \in S}

BitSeqs == SeqsUpTo(BOOLEAN, MaxBits)
AddrLists == SeqsUpTo(Addrs, MaxAddrList)

\* The addresses offered to the registry where gaps between them matter.
RegAddrs == {5, 6, 8}
RegLists == SeqsUpTo(RegAddrs, MaxAddrList)

Elems(q) == {q[i] : i \in 1..Len(q)}

RECURSIVE SeqMin(_)
SeqMin(q) ==
    IF Len(q) = 1 THEN q[1]
    ELSE LET m == SeqMin(Tail(q)) IN IF q[1] < m THEN q[1] ELSE m

RECURSIVE SeqMax(_)
SeqMax(q) ==
    IF Len(q) = 1 THEN q[1]
    ELSE LET m == SeqMax(Tail(q)) IN IF q[1] > m THEN q[1] ELSE m

----------------------------------------------------------------------------
(* The event record: the observable outcome of the last step. *)

NoEvent ==
    [op |-> "none", kind |-> "none", slave |-> 0, addr |-> 0,
     value |-> FALSE, start |-> 0, count |-> 0, res |-> "none", bits |-> <<>>,
     wrote |-> FALSE, gate |-> FALSE, notified |-> <<>>, escaped |-> FALSE,
     ret |-> "none", next |-> "none", addrs |-> <<>>, forwarded |-> FALSE,
     data |-> <<>>, out |-> <<>>, connects |-> 0, reconnected |-> FALSE,
     sent |-> FALSE,
     was_on |-> FALSE, is_on |-> FALSE, key |-> <<>>, hub_id |-> <<>>]

\* live: self._client was not None when the task's executor job was submitted.
IdleTick ==
    [pc |-> "idle", live |-> FALSE, idx |-> 0, used |-> 0, start |-> 0, count |-> 0]
IdleWriter ==
    [pc |-> "idle", live |-> FALSE, kind |-> "none", slave |-> 0, addr |-> 0,
     value |-> FALSE]

TickTask(t) == <<"tick", t>>
WriterTask(w) == <<"writer", w>>

\* The state after ModbusHub.__init__, but for the configured delay.
InitHub ==
    /\ hub_state = "new"
    /\ connect_job = "none"
    /\ hass_data = FALSE
    /\ unsub_poll = FALSE
    /\ client = "none"
    /\ closing = FALSE
    /\ locked = FALSE
    /\ waiters = <<>>
    /\ slaves_to_poll = <<>>
    /\ slave_data = <<>>
    /\ callbacks = <<>>
    /\ tick = [t \in Ticks |-> IdleTick]
    /\ writer = [w \in Writers |-> IdleWriter]
    /\ second = "idle"
    /\ second_data = FALSE
    /\ platform_task = FALSE
    /\ second_task = 0
    /\ second_setups = 0
    /\ seen = [t \in Ticks |-> <<>>]
    /\ ev = NoEvent

\* CONF_DELAY is not configured: self._delay is its default, 0.
Init == InitHub /\ delay = 0

\* CONF_DELAY is configured.
InitDelay == InitHub /\ delay = DelayMs

----------------------------------------------------------------------------
(* asyncio.Lock as used by "async with self._lock". *)

\* A mutant of LockAcquireNow: the gate is taken without looking at it.
LockAcquireNowUnchecked(lk, ws) == TRUE

\* A mutant of LockAcquireNow: a free lock is taken past the tasks queued
\* for it.
LockAcquireNowBarging(lk, ws) == ~lk

\* acquire() succeeds without suspending iff the lock is free and nobody is
\* queued for it; otherwise the caller is appended to the queue and suspends.
LockAcquireNow(lk, ws) == ~lk /\ ws = <<>>

\* A mutant of LockAtExit: the gate stays held when the call returns.
LockAtExitHeld(lk) == lk

\* Leaving the "async with" block releases the lock before the awaited result
\* is returned to the caller.
LockAtExit(lk) == FALSE

\* async_pymodbus_call up to its first suspension, for `task`.
Acquire(task, lk, ws) ==
    IF LockAcquireNow(lk, ws)
    THEN [got |-> TRUE, locked |-> TRUE, waiters |-> ws]
    ELSE [got |-> FALSE, locked |-> lk, waiters |-> Append(ws, task)]

----------------------------------------------------------------------------
(* _pymodbus_call: one transaction, run by the executor under the lock.    *)
(* The pymodbus client is the environment: reconnect says whether the     *)
(* socket is found open and what a connect() on a closed socket returns,   *)
(* outcome what the request does,                                          *)
(* bits the coil bits of a read response, drop whether a failed request    *)
(* leaves the socket closed.                                               *)

Outcomes == {"ok", "noattr", "modbus_exc", "other_exc"}

\* What the job finds when it looks at the socket: "unneeded" the socket is
\* open and connect() is not called, "ok" the socket is closed and connect()
\* reopens it, "failed" the socket is closed and connect() returns false or
\* raises a ModbusException, "raised" the socket is closed and connect()
\* raises an exception that is no ModbusException.
ReconnectOutcomes == {"unneeded", "ok", "failed", "raised"}

\* One representative for the inputs a call does not read: late is read only
\* by a job that outlives self._client, reconnect only by a job that gets as
\* far as is_socket_open, the result of connect() only on a closed socket,
\* bits only from a response, drop only after a request that failed.
EnvCanonical(cl, live, late, reconnect, outcome, bits, drop) ==
    /\ (cl # "none" \/ ~live) => ~late
    /\ reconnect \in ReconnectOutcomes
    /\ cl = "closed" => reconnect # "unneeded"
    /\ (cl = "none" /\ ~live) => reconnect = "unneeded"
    /\ late => reconnect \in {"unneeded", "ok"}
    /\ (cl = "none" /\ (~live \/ late)) => outcome = "ok"
    /\ reconnect \in {"failed", "raised"} => outcome = "ok" /\ ~drop
    /\ outcome # "ok" => bits = <<>>
    /\ (outcome = "ok" \/ cl = "none") => ~drop

\* The inputs a job reads, given self._client and the job's live flag.
Lates(cl, live) == IF cl = "none" /\ live THEN BOOLEAN ELSE {FALSE}
\* The socket is found closed when the last request left it closed, and may
\* be found closed when _pymodbus_close, which async_close runs without the
\* lock, has closed it: while async_close awaits that job (racing) or, for a
\* job submitted before, after it has set self._client to None.
Reconnects(cl, live, racing) ==
    IF cl = "closed" THEN {"ok", "failed", "raised"}
    ELSE IF (cl = "none" /\ live) \/ (cl = "open" /\ racing) THEN ReconnectOutcomes
    ELSE {"unneeded"}
OutcomesFor(cl, live, late, reconnect) ==
    IF (cl = "none" /\ (~live \/ late)) \/ reconnect \in {"failed", "raised"}
    THEN {"ok"} ELSE Outcomes
BitsFor(outcome, is_read) == IF outcome = "ok" /\ is_read THEN BitSeqs ELSE {<<>>}
DropsFor(cl, outcome) == IF outcome # "ok" /\ cl # "none" THEN BOOLEAN ELSE {FALSE}
RaisersFor(cbs, outcome) == IF outcome = "ok" THEN 0..Len(cbs) ELSE {0}

\* A mutant of pymodbus_call: the connection is released after every
\* exchange, to be opened again by the next request.
pymodbus_call_release(cl, live, is_read, late, reconnect, outcome, bits, drop) ==
    IF cl = "none" /\ (~live \/ late)
    THEN [res |-> "raised", bits |-> <<>>, client |-> cl,
          connects |-> IF reconnect = "ok" THEN 1 ELSE 0, sent |-> FALSE]
    ELSE IF reconnect \in {"failed", "raised"}
    THEN [res |-> IF reconnect = "raised" THEN "raised" ELSE "none", bits |-> <<>>,
          client |-> IF cl = "none" THEN "none" ELSE "closed",
          connects |-> 1, sent |-> FALSE]
    ELSE [res |-> IF outcome = "ok" THEN "ok"
                  ELSE IF outcome = "other_exc" THEN "raised" ELSE "none",
          bits |-> IF is_read /\ outcome = "ok" THEN bits ELSE <<>>,
          client |-> IF cl = "none" THEN "none" ELSE "closed",
          connects |-> IF reconnect = "unneeded" THEN 0 ELSE 1,
          sent |-> TRUE]

\* The job of a task, run by an executor thread while the task holds the
\* lock.  cl is self._client when the awaiting coroutine is resumed; live
\* says whether it was not None when the job was submitted.
\* res: "ok" a response carrying the attribute of the call type; "none" the
\* None returned on a failed reconnect, on a result without the attribute
\* and on a ModbusException; "raised" an exception that is no
\* ModbusException, which nothing catches: one raised by the client, or the
\* AttributeError of self._client being None.  async_close sets
\* self._client to None without taking the lock: a job submitted before
\* that (live) either has read self._client for the last time already, and
\* goes on with the client it has, or reads None (late): at is_socket_open
\* or at connect() (no connect() made), or at getattr after a connect()
\* that reopened the socket.
pymodbus_call(cl, live, is_read, late, reconnect, outcome, bits, drop) ==
    IF cl = "none" /\ (~live \/ late)
    THEN [res |-> "raised", bits |-> <<>>, client |-> cl,
          connects |-> IF reconnect = "ok" THEN 1 ELSE 0, sent |-> FALSE]
    ELSE IF reconnect \in {"failed", "raised"}
    THEN [res |-> IF reconnect = "raised" THEN "raised" ELSE "none", bits |-> <<>>,
          client |-> IF cl = "none" THEN "none" ELSE "closed",
          connects |-> 1, sent |-> FALSE]
    ELSE [res |-> IF outcome = "ok" THEN "ok"
                  ELSE IF outcome = "other_exc" THEN "raised" ELSE "none",
          bits |-> IF is_read /\ outcome = "ok" THEN bits ELSE <<>>,
          client |-> IF cl = "none" THEN "none"
                     ELSE IF outcome # "ok" /\ drop THEN "closed" ELSE "open",
          connects |-> IF reconnect = "unneeded" THEN 0 ELSE 1,
          sent |-> TRUE]

----------------------------------------------------------------------------
(* The address registry and the poll window. *)

SlaveIndex(stp, slave) ==
    IF \E i \in 1..Len(stp) : stp[i].slave = slave
    THEN CHOOSE i \in 1..Len(stp) : stp[i].slave = slave
    ELSE 0

\* A mutant of register_slaves_to_poll: the window starts at the first
\* address of the list instead of the smallest.
register_slaves_to_poll_first(stp, slave, addresses) ==
    LET i == SlaveIndex(stp, slave)
        withSlave == IF i = 0
                     THEN Append(stp, [slave |-> slave, addresses |-> <<>>,
                                       start |-> NoKey, count |-> NoKey])
                     ELSE stp
        j == SlaveIndex(withSlave, slave)
        all == withSlave[j].addresses \o addresses
    IN  IF all = <<>>
        THEN [withSlave EXCEPT ![j].addresses = all]
        ELSE [withSlave EXCEPT ![j].addresses = all,
                               ![j].start = all[1],
                               ![j].count = SeqMax(all) - all[1] + 1]

\* A mutant of register_slaves_to_poll: the new addresses replace the list
\* instead of extending it.
register_slaves_to_poll_replace(stp, slave, addresses) ==
    LET i == SlaveIndex(stp, slave)
        withSlave == IF i = 0
                     THEN Append(stp, [slave |-> slave, addresses |-> <<>>,
                                       start |-> NoKey, count |-> NoKey])
                     ELSE stp
        j == SlaveIndex(withSlave, slave)
        all == addresses
    IN  IF all = <<>>
        THEN [withSlave EXCEPT ![j].addresses = all]
        ELSE [withSlave EXCEPT ![j].addresses = all,
                               ![j].start = SeqMin(all),
                               ![j].count = SeqMax(all) - SeqMin(all) + 1]

\* register_slaves_to_poll(slave, addresses): the dict after the call.  With
\* no address at all min() raises ValueError after the entry has been
\* created and extended, so the entry is left as it was before the two
\* assignments of "start" and "count".
register_slaves_to_poll(stp, slave, addresses) ==
    LET i == SlaveIndex(stp, slave)
        withSlave == IF i = 0
                     THEN Append(stp, [slave |-> slave, addresses |-> <<>>,
                                       start |-> NoKey, count |-> NoKey])
                     ELSE stp
        j == SlaveIndex(withSlave, slave)
        all == withSlave[j].addresses \o addresses
    IN  IF all = <<>>
        THEN [withSlave EXCEPT ![j].addresses = all]
        ELSE [withSlave EXCEPT ![j].addresses = all,
                               ![j].start = SeqMin(all),
                               ![j].count = SeqMax(all) - SeqMin(all) + 1]

RegisterRaises(stp, slave, addresses) ==
    LET i == SlaveIndex(stp, slave)
    IN  (IF i = 0 THEN <<>> ELSE stp[i].addresses) \o addresses = <<>>

----------------------------------------------------------------------------
(* async_poll_slaves: decoding a response, and the loop over the slaves. *)

\* A mutant of DecodeStates: addresses the response has no bit for are left
\* out instead of being reported as off.
DecodeStatesNoDefault(start, count, bits) ==
    [a \in {b \in start..(start + count - 1) : b - start < Len(bits)} |->
        bits[a - start + 1]]

\* states = {start + i: bits[i] if i < len(bits) else False for i < count}
DecodeStates(start, count, bits) ==
    [a \in start..(start + count - 1) |->
        IF a - start < Len(bits) THEN bits[a - start + 1] ELSE FALSE]

\* self._slave_data[slave] = states
StoreStates(cache, slave, states) == (slave :> states) @@ cache

\* "if result is None"
ResultIsNone(res) == res = "none"

\* "if result is None: continue": the loop goes on with the entry after idx
\* (n is the number of entries).
AfterFailedRead(idx, n) == idx + 1

\* The "for slave, config in self._slaves_to_poll.items()" loop from the
\* fetch of entry idx to the first suspension of async_pymodbus_call.
\* used is the size the dict had when the iteration began: the iterator
\* raises RuntimeError when the size has changed.  An entry without "start"
\* raises KeyError.  Both leave the coroutine.
IterStep(t, idx, used, stp, lk, ws, cl) ==
    IF Len(stp) # used
    THEN [tick |-> IdleTick, locked |-> lk, waiters |-> ws, escaped |-> TRUE, next |-> "error"]
    ELSE IF idx > Len(stp)
    THEN [tick |-> IdleTick, locked |-> lk, waiters |-> ws, escaped |-> FALSE, next |-> "end"]
    ELSE IF stp[idx].start = NoKey
    THEN [tick |-> IdleTick, locked |-> lk, waiters |-> ws, escaped |-> TRUE, next |-> "error"]
    ELSE LET a == Acquire(TickTask(t), lk, ws)
         IN  [tick |-> [pc |-> IF a.got THEN "call" ELSE "wait",
                        live |-> a.got /\ cl # "none", idx |-> idx,
                        used |-> used, start |-> stp[idx].start,
                        count |-> stp[idx].count],
              locked |-> a.locked, waiters |-> a.waiters, escaped |-> FALSE,
              next |-> "read"]

\* The callbacks invoked by "for callback_func in self._callbacks", when the
\* first one to raise is the raiser-th (0: none raises).
Notified(cbs, raiser) == IF raiser = 0 THEN cbs ELSE SubSeq(cbs, 1, raiser)

----------------------------------------------------------------------------
(* write_coil *)

\* A mutant of write_coil_cache: the write path stores the written value,
\* creating the slave's entry when there is none.
write_coil_cache_patch(cache, slave, address, value, res) ==
    IF res # "ok" THEN cache
    ELSE IF slave \in DOMAIN cache
    THEN (slave :> ((address :> value) @@ cache[slave])) @@ cache
    ELSE (slave :> (address :> value)) @@ cache

\* What write_coil does to self._slave_data: nothing.
write_coil_cache(cache, slave, address, value, res) == cache

\* "return result is not None"
write_coil_return(res) == IF res = "ok" THEN "true" ELSE "false"


----------------------------------------------------------------------------
(* Setup and teardown of the config entry. *)

\* What _pymodbus_connect meets: "ok" the client is built and connected;
\* "unsupported" the connection type is none of the four; "ctor_modbus_exc"
\* the client's constructor raises a ModbusException; "no_socket" connect()
\* leaves no socket; "modbus_exc" connect() raises a ModbusException;
\* "other_exc" connect() raises an exception that is no ModbusException;
\* "ctor_other_exc" an exception that is no ModbusException is raised before
\* self._client is assigned (by the client's constructor, or by the lookup
\* of a key the entry's data does not have).
SetupOutcomes ==
    {"ok", "unsupported", "ctor_modbus_exc", "ctor_other_exc", "no_socket",
     "modbus_exc", "other_exc"}

\* self._client when _pymodbus_connect is over: assigned by the constructor
\* call, before connect().
connect_client(outcome) ==
    IF outcome = "ok" THEN "open"
    ELSE IF outcome \in {"unsupported", "ctor_modbus_exc", "ctor_other_exc"} THEN "none"
    ELSE "closed"

\* What _pymodbus_connect hands to the coroutine awaiting it: the
\* ModbusException is caught and turned into False, any other exception is
\* raised in the coroutine.
connect_result(outcome) ==
    IF outcome = "ok" THEN "true"
    ELSE IF outcome \in {"other_exc", "ctor_other_exc"} THEN "raised"
    ELSE "false"

\* _pymodbus_connect, run by an executor thread for async_setup, which
\* async_setup_entry awaits right after constructing the hub.  The
\* coroutine is resumed with the job's result in a later step of the loop.
PymodbusConnect(outcome) ==
    /\ hub_state = "new"
    /\ hub_state' = "connecting"
    /\ connect_job' = outcome
    /\ client' = connect_client(outcome)
    /\ ev' = [NoEvent EXCEPT !.op = "connect", !.res = outcome,
                             !.ret = connect_result(outcome)]
    /\ UNCHANGED <<second, second_data, platform_task, second_task, second_setups, seen,
                   hass_data, unsub_poll, closing, delay, locked, waiters,
                   slaves_to_poll, slave_data, callbacks, tick, writer>>

\* async_setup_entry for the entry of the hub, from its await of async_setup
\* on (the hub_id was found free and the hub constructed before it):
\* async_setup is resumed with the result of _pymodbus_connect and
\* async_setup_entry runs to its end.  Only after a connect that
\* returned True the timer is registered, the hub is stored under its hub_id,
\* in the place of whatever hub was stored there, and the task forwarding
\* the entry to the switch platform is created; an exception raised by the
\* job leaves async_setup and async_setup_entry.
AsyncSetupEntry ==
    /\ hub_state = "connecting"
    /\ LET result == connect_result(connect_job)
       IN  /\ hub_state' = IF result = "true" THEN "ready" ELSE "failed"
           /\ hass_data' = (result = "true")
           /\ second_data' = (second_data /\ result # "true")
           /\ unsub_poll' = (result = "true")
           /\ platform_task' = (result = "true")
           /\ ev' = [NoEvent EXCEPT !.op = "setup", !.res = connect_job, !.ret = result,
                                    !.escaped = (result = "raised"),
                                    !.forwarded = (result = "true")]
    /\ connect_job' = "none"
    /\ UNCHANGED <<second, second_task, second_setups, seen, client, closing, delay, locked, waiters,
                   slaves_to_poll, slave_data, callbacks, tick, writer>>

\* async_close up to its await of the executor job (no await when the
\* client is already None).
CloseBegins == client # "none"

\* async_unload_entry when async_unload_platforms reports success: the hub
\* is popped from hass.data and closed.  The poll timer is left alone.
AsyncUnloadEntry ==
    /\ hass_data
    /\ ~closing
    /\ hass_data' = FALSE
    /\ closing' = CloseBegins
    /\ ev' = NoEvent
    /\ UNCHANGED <<connect_job, second, second_data, platform_task, second_task, second_setups, seen,
                   hub_state, unsub_poll, client, delay, locked, waiters,
                   slaves_to_poll, slave_data, callbacks, tick, writer>>

\* async_stop: cancel the timer, then async_close.
AsyncStop ==
    /\ hub_state = "ready"
    /\ ~closing
    /\ unsub_poll' = FALSE
    /\ closing' = CloseBegins
    /\ ev' = NoEvent
    /\ UNCHANGED <<connect_job, second, second_data, platform_task, second_task, second_setups, seen,
                   hub_state, hass_data, client, delay, locked, waiters,
                   slaves_to_poll, slave_data, callbacks, tick, writer>>

\* async_close resumed after _pymodbus_close: self._client = None.
CloseDone ==
    /\ closing
    /\ closing' = FALSE
    /\ client' = "none"
    /\ ev' = NoEvent
    /\ UNCHANGED <<connect_job, second, second_data, platform_task, second_task, second_setups, seen,
                   hub_state, hass_data, unsub_poll, delay, locked, waiters,
                   slaves_to_poll, slave_data, callbacks, tick, writer>>

----------------------------------------------------------------------------
(* A second config entry with the name and the slave of the hub's entry,   *)
(* hence with its hub_id (the config flow names an entry by its slave and  *)
(* refuses a duplicate only for the same host and port).  Of the hub made  *)
(* for it, the model keeps whether it is the value of hass.data[hub_id].   *)

\* hub_id in hass.data[DOMAIN], the test of async_setup_entry and of
\* async_unload_entry.
HubIdTaken == hass_data \/ second_data

\* What the await of a hub's async_setup gives: True, False, or an exception.
ConnectResults == {connect_result(outcome) : outcome \in SetupOutcomes}

\* async_setup_entry of the second entry, up to its first await.  With the
\* hub_id taken, the entry is updated and async_reload is awaited.  With the
\* hub_id free (no setup was made yet, the setup of the first entry is still
\* awaiting its connect, or the stored hub was popped by an unload) a hub is
\* constructed for the second entry and its async_setup is awaited.
SecondSetupEntry ==
    /\ second = "idle"
    /\ second' = IF HubIdTaken THEN "reloading" ELSE "connecting"
    /\ ev' = NoEvent
    /\ UNCHANGED <<hub_state, connect_job, hass_data, unsub_poll, client, closing,
                   delay, locked, waiters, slaves_to_poll, slave_data, callbacks,
                   tick, writer, second_data, platform_task, second_task, second_setups, seen>>

\* The same, resumed after async_reload: whatever ran meanwhile, it returns
\* True, or raises what async_reload raised.
SecondSetupReloaded ==
    /\ second = "reloading"
    /\ second' = "idle"
    /\ \E raised \in BOOLEAN :
          ev' = [NoEvent EXCEPT !.op = "setup", !.res = "exists",
                                !.ret = IF raised THEN "raised" ELSE "true",
                                !.escaped = raised]
    /\ UNCHANGED <<hub_state, connect_job, hass_data, unsub_poll, client, closing,
                   delay, locked, waiters, slaves_to_poll, slave_data, callbacks,
                   tick, writer, second_data, platform_task, second_task, second_setups, seen>>

\* The same, resumed after the async_setup of its own hub.  After True its
\* hub is stored under the hub_id, in the place of the first entry's hub if
\* that was stored meanwhile: nothing stops or closes the hub replaced, its
\* timer and its connection stay; and the task forwarding the second entry
\* to the switch platform is created.
SecondSetupResumed(result) ==
    /\ second = "connecting"
    /\ result = "true" => second_setups < MaxTasks
    /\ second' = "idle"
    /\ second_data' = (second_data \/ result = "true")
    /\ hass_data' = (hass_data /\ result # "true")
    /\ second_task' = IF result = "true" THEN second_task + 1 ELSE second_task
    /\ second_setups' = IF result = "true" THEN second_setups + 1 ELSE second_setups
    /\ ev' = [NoEvent EXCEPT !.op = "setup", !.res = "second", !.ret = result,
                             !.escaped = (result = "raised"),
                             !.forwarded = (result = "true")]
    /\ UNCHANGED <<hub_state, connect_job, unsub_poll, client, closing,
                   delay, locked, waiters, slaves_to_poll, slave_data, callbacks,
                   tick, writer, platform_task, seen>>

\* async_unload_entry, of either entry, while the hub stored under the
\* hub_id is the second entry's: that hub is popped and closed, the hub of
\* the first entry is not touched.
SecondUnloadEntry ==
    /\ second_data
    /\ second_data' = FALSE
    /\ ev' = NoEvent
    /\ UNCHANGED <<hub_state, connect_job, hass_data, unsub_poll, client, closing,
                   delay, locked, waiters, slaves_to_poll, slave_data, callbacks,
                   tick, writer, second, platform_task, second_task, second_setups, seen>>

----------------------------------------------------------------------------
(* Registration of slaves and subscribers (the platform's setup). *)

\* register_slaves_to_poll(slave, addresses), called by the platform's
\* setup; the slave's list is kept within n addresses.
RegisterSlavesUpTo(n, slave, addresses) ==
    /\ hass_data
    /\ LET i == SlaveIndex(slaves_to_poll, slave)
           had == IF i = 0 THEN 0 ELSE Len(slaves_to_poll[i].addresses)
       IN  had + Len(addresses) <= n
    /\ slaves_to_poll' = register_slaves_to_poll(slaves_to_poll, slave, addresses)
    /\ ev' = [NoEvent EXCEPT !.op = "register", !.slave = slave, !.addrs = addresses,
                             !.escaped = RegisterRaises(slaves_to_poll, slave, addresses)]
    /\ UNCHANGED <<connect_job, second, second_data, platform_task, second_task, second_setups, seen,
                   hub_state, hass_data, unsub_poll, client, closing, delay,
                   locked, waiters, slave_data, callbacks, tick, writer>>

RegisterSlaves(slave, addresses) == RegisterSlavesUpTo(MaxAddrList, slave, addresses)

\* add_callback: the new subscriber is named by its place in the list; at
\* most n are registered.
AddCallbackUpTo(n) ==
    /\ hass_data
    /\ Len(callbacks) < n
    /\ callbacks' = Append(callbacks, Len(callbacks) + 1)
    /\ ev' = NoEvent
    /\ UNCHANGED <<connect_job, second, second_data, platform_task, second_task, second_setups, seen,
                   hub_state, hass_data, unsub_poll, client, closing, delay,
                   locked, waiters, slaves_to_poll, slave_data, tick, writer>>

AddCallback == AddCallbackUpTo(MaxCallbacks)

----------------------------------------------------------------------------
(* The poll tick. *)

\* The timer calls async_poll_slaves; the new invocation runs to its first
\* suspension.  The lowest free slot stands for the new invocation.
TimerFire(t) ==
    /\ unsub_poll
    /\ tick[t].pc = "idle"
    /\ \A u \in Ticks : u < t => tick[u].pc # "idle"
    /\ LET n == IterStep(t, 1, Len(slaves_to_poll), slaves_to_poll, locked, waiters, client)
       IN  /\ tick' = [tick EXCEPT ![t] = n.tick]
           /\ locked' = n.locked
           /\ waiters' = n.waiters
           /\ ev' = [NoEvent EXCEPT !.op = "tick_start",
                                    !.escaped = n.escaped, !.next = n.next]
    /\ UNCHANGED <<connect_job, second, second_data, platform_task, second_task, second_setups, seen,
                   hub_state, hass_data, unsub_poll, client, closing, delay,
                   slaves_to_poll, slave_data, callbacks, writer>>

\* The same step, with the history of the state cache kept: seen[t] is
\* self._slave_data as it is when the timer starts the invocation t.
TimerFireSeen(t) ==
    /\ unsub_poll
    /\ tick[t].pc = "idle"
    /\ \A u \in Ticks : u < t => tick[u].pc # "idle"
    /\ LET n == IterStep(t, 1, Len(slaves_to_poll), slaves_to_poll, locked, waiters, client)
       IN  /\ tick' = [tick EXCEPT ![t] = n.tick]
           /\ locked' = n.locked
           /\ waiters' = n.waiters
           /\ ev' = [NoEvent EXCEPT !.op = "tick_start",
                                    !.escaped = n.escaped, !.next = n.next]
    /\ seen' = [seen EXCEPT ![t] = slave_data]
    /\ UNCHANGED <<connect_job, second, second_data, platform_task, second_task, second_setups,
                   hub_state, hass_data, unsub_poll, client, closing, delay,
                   slaves_to_poll, slave_data, callbacks, writer>>

\* The lock's oldest waiter is resumed, takes the lock and submits its job.
LockGrant ==
    /\ ~locked
    /\ waiters # <<>>
    /\ locked' = TRUE
    /\ waiters' = Tail(waiters)
    /\ LET task == Head(waiters)
       IN  IF task[1] = "tick"
           THEN /\ tick' = [tick EXCEPT ![task[2]].pc = "call",
                                         ![task[2]].live = client # "none"]
                /\ UNCHANGED writer
           ELSE /\ writer' = [writer EXCEPT ![task[2]].pc = "call",
                                             ![task[2]].live = client # "none"]
                /\ UNCHANGED tick
    /\ ev' = NoEvent
    /\ UNCHANGED <<connect_job, second, second_data, platform_task, second_task, second_setups, seen,
                   hub_state, hass_data, unsub_poll, client, closing, delay,
                   slaves_to_poll, slave_data, callbacks>>

\* The read of tick t returns: the lock is released, the result is returned
\* to async_poll_slaves, which handles it and runs to its next suspension.
PollResult(t, late, reconnect, outcome, bits, drop, raiser) ==
    /\ tick[t].pc = "call"
    /\ EnvCanonical(client, tick[t].live, late, reconnect, outcome, bits, drop)
    /\ reconnect \in Reconnects(client, tick[t].live, closing)
    /\ raiser \in 0..Len(callbacks)
    /\ raiser # 0 => outcome = "ok"
    /\ LET me == tick[t]
           r == pymodbus_call(client, me.live, TRUE, late, reconnect, outcome, bits, drop)
           slave == slaves_to_poll[me.idx].slave
           lk == LockAtExit(locked)
           states == DecodeStates(me.start, me.count, r.bits)
           stored == r.res # "raised" /\ ~ResultIsNone(r.res)
           thrown == r.res = "raised" \/ (stored /\ raiser # 0)
           sleeps == stored /\ ~thrown /\ delay > 0
           nextIdx == IF stored THEN me.idx + 1
                      ELSE AfterFailedRead(me.idx, Len(slaves_to_poll))
           n == IF thrown
                THEN [tick |-> IdleTick, locked |-> lk, waiters |-> waiters,
                      escaped |-> TRUE, next |-> "error"]
                ELSE IF sleeps
                THEN [tick |-> [me EXCEPT !.pc = "sleep", !.live = FALSE], locked |-> lk,
                      waiters |-> waiters, escaped |-> FALSE, next |-> "sleep"]
                ELSE IterStep(t, nextIdx, me.used, slaves_to_poll, lk, waiters, r.client)
       IN  /\ client' = r.client
           /\ slave_data' = IF stored THEN StoreStates(slave_data, slave, states)
                            ELSE slave_data
           /\ tick' = [tick EXCEPT ![t] = n.tick]
           /\ locked' = n.locked
           /\ waiters' = n.waiters
           /\ ev' = [NoEvent EXCEPT
                        !.op = "poll", !.slave = slave,
                        !.start = me.start, !.count = me.count, !.res = r.res,
                        !.bits = r.bits, !.wrote = stored, !.gate = stored /\ lk,
                        !.notified = IF stored THEN Notified(callbacks, raiser) ELSE <<>>,
                        !.escaped = n.escaped, !.next = n.next]
    /\ UNCHANGED <<connect_job, second, second_data, platform_task, second_task, second_setups, seen,
                   hub_state, hass_data, unsub_poll, closing, delay,
                   slaves_to_poll, callbacks, writer>>

\* The inter-slave asyncio.sleep is over: the loop goes on.
TickWake(t) ==
    /\ tick[t].pc = "sleep"
    /\ LET n == IterStep(t, tick[t].idx + 1, tick[t].used, slaves_to_poll, locked, waiters,
                         client)
       IN  /\ tick' = [tick EXCEPT ![t] = n.tick]
           /\ locked' = n.locked
           /\ waiters' = n.waiters
           /\ ev' = [NoEvent EXCEPT !.op = "tick_wake",
                                    !.escaped = n.escaped, !.next = n.next]
    /\ UNCHANGED <<connect_job, second, second_data, platform_task, second_task, second_setups, seen,
                   hub_state, hass_data, unsub_poll, client, closing, delay,
                   slaves_to_poll, slave_data, callbacks, writer>>

----------------------------------------------------------------------------
(* The write path: ModbusHub.write_coil (called by the switches) and the   *)
(* write_coil and write_register services, which call async_pymodbus_call. *)

WriteCall(w, kind, slave, address, value) ==
    /\ hass_data
    /\ writer[w].pc = "idle"
    /\ kind = "service" => slave = 1 /\ ~value
    /\ LET a == Acquire(WriterTask(w), locked, waiters)
       IN  /\ writer' = [writer EXCEPT ![w] =
                            [pc |-> IF a.got THEN "call" ELSE "wait",
                             live |-> a.got /\ client # "none", kind |-> kind,
                             slave |-> slave, addr |-> address, value |-> value]]
           /\ locked' = a.locked
           /\ waiters' = a.waiters
    /\ ev' = NoEvent
    /\ UNCHANGED <<connect_job, second, second_data, platform_task, second_task, second_setups, seen,
                   hub_state, hass_data, unsub_poll, client, closing, delay,
                   slaves_to_poll, slave_data, callbacks, tick>>

WriteResult(w, late, reconnect, outcome, drop) ==
    /\ writer[w].pc = "call"
    /\ EnvCanonical(client, writer[w].live, late, reconnect, outcome, <<>>, drop)
    /\ reconnect \in Reconnects(client, writer[w].live, closing)
    /\ LET me == writer[w]
           r == pymodbus_call(client, me.live, FALSE, late, reconnect, outcome, <<>>, drop)
       IN  /\ client' = r.client
           /\ locked' = LockAtExit(locked)
           /\ slave_data' = IF me.kind = "write_coil" /\ r.res # "raised"
                            THEN write_coil_cache(slave_data, me.slave, me.addr, me.value, r.res)
                            ELSE slave_data
           /\ ev' = [NoEvent EXCEPT
                        !.op = "write", !.kind = me.kind,
                        !.slave = me.slave, !.addr = me.addr, !.value = me.value,
                        !.res = r.res, !.escaped = (r.res = "raised"),
                        !.ret = IF r.res = "raised" THEN "raised"
                                ELSE IF me.kind = "write_coil"
                                THEN write_coil_return(r.res) ELSE "none"]
    /\ writer' = [writer EXCEPT ![w] = IdleWriter]
    /\ UNCHANGED <<connect_job, second, second_data, platform_task, second_task, second_setups, seen,
                   hub_state, hass_data, unsub_poll, closing, delay, waiters,
                   slaves_to_poll, callbacks, tick>>

----------------------------------------------------------------------------

\* The read of tick t returns, whatever the client did.
PollStep(t) ==
    \E late \in Lates(client, tick[t].live),
       reconnect \in Reconnects(client, tick[t].live, closing) :
        \E outcome \in OutcomesFor(client, tick[t].live, late, reconnect) :
            \E bits \in BitsFor(outcome, TRUE), drop \in DropsFor(client, outcome),
               raiser \in RaisersFor(callbacks, outcome) :
                PollResult(t, late, reconnect, outcome, bits, drop, raiser)

\* The write of writer w returns, whatever the client did.
WriteStep(w) ==
    \E late \in Lates(client, writer[w].live),
       reconnect \in Reconnects(client, writer[w].live, closing) :
        \E outcome \in OutcomesFor(client, writer[w].live, late, reconnect) :
            \E drop \in DropsFor(client, outcome) :
                WriteResult(w, late, reconnect, outcome, drop)

\* The switch platform's setup registers every address of the slave's module
\* in one call: addresses = list(range(32)), here 0..MaxAddr.
AllAddrs == [i \in 1..(MaxAddr + 1) |-> i - 1]

\* The hub of one config entry with its slaves, ticks, subscriber and writer,
\* from its setup to past its unload.  The slaves are interchangeable to the
\* hub: they are registered in the order of their numbers.  A second entry
\* with the same hub_id is part of NextSecond only.
Next ==
    \/ \E outcome \in SetupOutcomes : PymodbusConnect(outcome)
    \/ AsyncSetupEntry
    \/ AsyncUnloadEntry
    \/ CloseDone
    \/ \E slave \in Slaves :
          slave <= Len(slaves_to_poll) + 1 /\ RegisterSlaves(slave, AllAddrs)
    \/ AddCallback
    \/ \E t \in Ticks : TimerFire(t)
    \/ LockGrant
    \/ \E t \in Ticks : PollStep(t)
    \/ \E w \in Writers, kind \in WriteKinds, slave \in Slaves, address \in WriteAddrs,
          value \in BOOLEAN : WriteCall(w, kind, slave, address, value)
    \/ \E w \in Writers : WriteStep(w)

Spec == Init /\ [][Next]_vars

\* The hub polling one slave, registered with every address list the registry
\* accepts (the empty one and repeated registrations included), one tick at a
\* time; no writer, no teardown.
NextPoll ==
    \/ PymodbusConnect("ok")
    \/ AsyncSetupEntry
    \/ \E addresses \in AddrLists : RegisterSlaves(1, addresses)
    \/ AddCallback
    \/ TimerFire(1)
    \/ PollStep(1)

SpecPoll == Init /\ [][NextPoll]_vars

\* The registry under every sequence of registrations, for both slaves, of
\* address lists with gaps, repetitions and any order, until the entry is
\* unloaded.  Slave 1 collects up to MaxRegList addresses, the other slave up
\* to MaxAddrList.
NextRegister ==
    \/ PymodbusConnect("ok")
    \/ AsyncSetupEntry
    \/ \E addresses \in RegLists : RegisterSlavesUpTo(MaxRegList, 1, addresses)
    \/ \E slave \in Slaves \ {1}, addresses \in RegLists :
          RegisterSlavesUpTo(MaxAddrList, slave, addresses)
    \/ AsyncUnloadEntry
    \/ CloseDone

SpecRegister == Init /\ [][NextRegister]_vars

\* The hub with one slave, its ticks and a writer, from any outcome of the
\* setup to the unload of the entry.
NextLink ==
    \/ \E outcome \in SetupOutcomes : PymodbusConnect(outcome)
    \/ AsyncSetupEntry
    \/ AsyncUnloadEntry
    \/ CloseDone
    \/ RegisterSlaves(1, AllAddrs)
    \/ \E t \in Ticks : TimerFire(t)
    \/ LockGrant
    \/ \E t \in Ticks : PollStep(t)
    \/ \E w \in Writers, kind \in WriteKinds, address \in WriteAddrs, value \in BOOLEAN :
          WriteCall(w, kind, 1, address, value)
    \/ \E w \in Writers : WriteStep(w)

SpecLink == Init /\ [][NextLink]_vars

\* The same, with the scheduling the event loop and the executor give: a
\* submitted job returns, a released lock is handed to its oldest waiter, a
\* close that was begun is finished, a coroutine awaiting a finished job is
\* resumed, and the recurring timer, while it is registered, goes on firing.
\* The callers of the hub are under no obligation.
SpecLinkFair ==
    /\ SpecLink
    /\ WF_vars(AsyncSetupEntry)
    /\ WF_vars(LockGrant)
    /\ WF_vars(CloseDone)
    /\ WF_vars(\E t \in Ticks : TimerFire(t))
    /\ \A t \in Ticks : WF_vars(PollStep(t))
    /\ \A w \in Writers : WF_vars(WriteStep(w))

\* The hub polling two slaves with several subscribers, one tick at a time.
NextNotify ==
    \/ PymodbusConnect("ok")
    \/ AsyncSetupEntry
    \/ \E slave \in Slaves :
          slave <= Len(slaves_to_poll) + 1 /\ RegisterSlaves(slave, AllAddrs)
    \/ AddCallbackUpTo(MaxSubscribers)
    \/ TimerFire(1)
    \/ PollStep(1)

SpecNotify == Init /\ [][NextNotify]_vars

\* The hub polling one slave with a subscriber, the timer firing while the
\* tick before is still running, each tick remembering the state cache it
\* started with.
NextSeen ==
    \/ PymodbusConnect("ok")
    \/ AsyncSetupEntry
    \/ RegisterSlaves(1, AllAddrs)
    \/ AddCallback
    \/ \E t \in Ticks : TimerFireSeen(t)
    \/ LockGrant
    \/ \E t \in Ticks : PollStep(t)

SpecSeen == Init /\ [][NextSeen]_vars

----------------------------------------------------------------------------
(* The checksum of crc16.py and the frames of the serial protocol.         *)

MaxDataLen == 3       \* bytes of a checksummed sequence of sample bytes
Bytes == 0..255
ByteSample == {0, 1, 5, 10, 32, 128, 255}
poly == 40961         \* 0xA001
crc16_start == 65535  \* 0xFFFF

\* Bit i of a non-negative integer.
Bit(x, i) == (x \div (2 ^ i)) % 2

\* Python's ^ on two bytes.
XorByte(a, b) ==
    LET d(i) == ((Bit(a, i) + Bit(b, i)) % 2) * (2 ^ i)
    IN  d(0) + d(1) + d(2) + d(3) + d(4) + d(5) + d(6) + d(7)

\* Python's ^ on two non-negative integers of any size, a byte at a time.
RECURSIVE Xor(_, _)
Xor(a, b) ==
    IF a = 0 THEN b
    ELSE IF b = 0 THEN a
    ELSE XorByte(a % 256, b % 256) + 256 * Xor(a \div 256, b \div 256)

\* for i in range(8): the steps i, i + 1, .. 7 of the inner loop.
RECURSIVE crc16_shift(_, _)
crc16_shift(crc16, i) ==
    IF i = 8 THEN crc16
    ELSE IF crc16 % 2 = 1
    THEN crc16_shift(Xor(crc16 \div 2, poly), i + 1)
    ELSE crc16_shift(crc16 \div 2, i + 1)

\* for data in datas: the bytes k, k + 1, .. of the outer loop.
RECURSIVE crc16_loop(_, _, _)
crc16_loop(datas, k, crc16) ==
    IF k > Len(datas) THEN crc16
    ELSE crc16_loop(datas, k + 1, crc16_shift(Xor(datas[k], crc16), 0))

\* The accumulator when the loop over datas ends.
crc16_acc(datas) == crc16_loop(datas, 1, crc16_start)

crc16_fn_shift_last(datas) ==
    LET RECURSIVE shift(_, _)
        shift(crc16, i) ==
            IF i = 8 THEN crc16
            ELSE IF crc16 % 2 = 1
            THEN shift(Xor(crc16, poly) \div 2, i + 1)
            ELSE shift(crc16 \div 2, i + 1)
        RECURSIVE loop(_, _)
        loop(k, crc16) ==
            IF k > Len(datas) THEN crc16
            ELSE loop(k + 1, shift(Xor(datas[k], crc16), 0))
        crc16 == loop(1, crc16_start)
    IN  <<crc16 % 256, crc16 \div 256>>

crc16_fn_high_first(datas) ==
    LET crc16 == crc16_acc(datas)
    IN  <<crc16 \div 256, crc16 % 256>>

\* return [crc16 & 0xff, crc16 >> 8]
crc16_fn(datas) ==
    LET crc16 == crc16_acc(datas)
    IN  <<crc16 % 256, crc16 \div 256>>

\* The checksum as the protocol defines it: the byte is XORed into the low
\* byte of a 16-bit accumulator, which is then shifted eight times.
RECURSIVE ChecksumShift(_, _)
ChecksumShift(acc, n) ==
    IF n = 0 THEN acc
    ELSE IF acc % 2 = 1
    THEN ChecksumShift(Xor(acc \div 2, 40961), n - 1)
    ELSE ChecksumShift(acc \div 2, n - 1)

\* The accumulator after the bytes n, n + 1, .. are consumed in their order.
RECURSIVE ChecksumAcc(_, _, _)
ChecksumAcc(bytes, n, acc) ==
    IF n > Len(bytes) THEN acc
    ELSE ChecksumAcc(bytes, n + 1,
                     ChecksumShift((acc \div 256) * 256 + Xor(acc % 256, bytes[n]), 8))

Checksum(bytes) ==
    LET acc == ChecksumAcc(bytes, 1, 65535)
    IN  <<acc % 256, acc \div 256>>

\* Decode-and-verify of the protocol, up to the checksum: what the receiver of
\* a frame reports.
DecodeAndVerify(frame) ==
    IF Len(frame) < 3 THEN "FrameTooShort"
    ELSE IF SubSeq(frame, Len(frame) - 1, Len(frame))
              # Checksum(SubSeq(frame, 1, Len(frame) - 2))
    THEN "ChecksumMismatch"
    ELSE "ok"

\* The sequences the checksum is taken of: every single byte, and the
\* sequences of sample bytes up to MaxDataLen.
CrcInputs == SeqsUpTo(ByteSample, MaxDataLen) \cup {<<b>> : b \in Bytes}

\* crc16_fn(datas), called on its own: one call in a behaviour.
Crc16(datas) ==
    /\ ev.op = "none"
    /\ ev' = [NoEvent EXCEPT !.op = "crc16", !.data = datas, !.out = crc16_fn(datas)]
    /\ UNCHANGED <<connect_job, second, second_data, platform_task, second_task, second_setups, seen,
                   hub_state, hass_data, unsub_poll, client, closing, delay, locked,
                   waiters, slaves_to_poll, slave_data, callbacks, tick, writer>>

NextCodec ==
    \/ \E datas \in CrcInputs : Crc16(datas)

SpecCodec == Init /\ [][NextCodec]_vars

----------------------------------------------------------------------------
(* The callers of async_pymodbus_call and what their transactions did to   *)
(* the connection.                                                         *)

\* async_pymodbus_call returns to its caller (the write_coil and
\* write_register services, or ModbusHub.write_coil for a switch): the job
\* is over, the lock is released, the caller runs to its end.  The event
\* records what the job did with the connection.
CallResult(w, late, reconnect, outcome, drop) ==
    /\ writer[w].pc = "call"
    /\ EnvCanonical(client, writer[w].live, late, reconnect, outcome, <<>>, drop)
    /\ reconnect \in Reconnects(client, writer[w].live, closing)
    /\ LET me == writer[w]
           r == pymodbus_call(client, me.live, FALSE, late, reconnect, outcome, <<>>, drop)
       IN  /\ client' = r.client
           /\ locked' = LockAtExit(locked)
           /\ slave_data' = IF me.kind = "write_coil" /\ r.res # "raised"
                            THEN write_coil_cache(slave_data, me.slave, me.addr, me.value, r.res)
                            ELSE slave_data
           /\ ev' = [NoEvent EXCEPT
                        !.op = "call", !.kind = me.kind,
                        !.slave = me.slave, !.addr = me.addr, !.value = me.value,
                        !.res = r.res, !.escaped = (r.res = "raised"),
                        !.ret = IF r.res = "raised" THEN "raised"
                                ELSE IF me.kind = "write_coil"
                                THEN write_coil_return(r.res) ELSE "none",
                        !.connects = r.connects,
                        !.reconnected = (reconnect = "ok"),
                        !.sent = r.sent]
    /\ writer' = [writer EXCEPT ![w] = IdleWriter]
    /\ UNCHANGED <<connect_job, second, second_data, platform_task, second_task, second_setups, seen,
                   hub_state, hass_data, unsub_poll, closing, delay, waiters,
                   slaves_to_poll, callbacks, tick>>

\* The call of writer w returns, whatever the client did.
CallStep(w) ==
    \E late \in Lates(client, writer[w].live),
       reconnect \in Reconnects(client, writer[w].live, closing) :
        \E outcome \in OutcomesFor(client, writer[w].live, late, reconnect) :
            \E drop \in DropsFor(client, outcome) :
                CallResult(w, late, reconnect, outcome, drop)

\* The hub with one slave, its ticks and the callers of async_pymodbus_call
\* contending for the lock, with whatever the endpoint does, from the setup
\* of the hub to past its close.
NextCall ==
    \/ PymodbusConnect("ok")
    \/ AsyncSetupEntry
    \/ AsyncUnloadEntry
    \/ CloseDone
    \/ RegisterSlaves(1, AllAddrs)
    \/ \E t \in Ticks : TimerFire(t)
    \/ LockGrant
    \/ \E t \in Ticks : PollStep(t)
    \/ \E w \in Writers, kind \in WriteKinds, address \in WriteAddrs, value \in BOOLEAN :
          WriteCall(w, kind, 1, address, value)
    \/ \E w \in Writers : CallStep(w)

SpecCall == Init /\ [][NextCall]_vars

----------------------------------------------------------------------------
(* The inter-slave delay. *)

\* CONF_DELAY is left at its default or configured.
InitAnyDelay == InitHub /\ delay \in {0, DelayMs}

\* The hub polling two slaves one tick at a time, with and without a delay.
NextDelay ==
    \/ PymodbusConnect("ok")
    \/ AsyncSetupEntry
    \/ \E slave \in Slaves :
          slave <= Len(slaves_to_poll) + 1 /\ RegisterSlaves(slave, AllAddrs)
    \/ AddCallback
    \/ TimerFire(1)
    \/ PollStep(1)
    \/ TickWake(1)

SpecDelay == InitAnyDelay /\ [][NextDelay]_vars

----------------------------------------------------------------------------
(* The gate between the ticks and the writers. *)

\* The hub polling two slaves, its ticks and a writer contending for the lock;
\* no subscriber, no teardown.
NextGate ==
    \/ PymodbusConnect("ok")
    \/ AsyncSetupEntry
    \/ \E slave \in Slaves :
          slave <= Len(slaves_to_poll) + 1 /\ RegisterSlaves(slave, AllAddrs)
    \/ \E t \in Ticks : TimerFire(t)
    \/ LockGrant
    \/ \E t \in Ticks : PollStep(t)
    \/ \E w \in Writers, kind \in WriteKinds, slave \in Slaves, address \in WriteAddrs,
          value \in BOOLEAN : WriteCall(w, kind, slave, address, value)
    \/ \E w \in Writers : WriteStep(w)

SpecGate == Init /\ [][NextGate]_vars

----------------------------------------------------------------------------
(* ModbusSwitch: async_turn_on and async_turn_off. *)

\* self._is_on after async_turn_on (value TRUE) or async_turn_off (value
\* FALSE), when it was was_on and hub.write_coil returned ret: the assignment
\* follows the await whatever it returned, and is skipped only when the await
\* raised.
turn_is_on(was_on, value, ret) == IF ret = "raised" THEN was_on ELSE value

\* async_turn_on / async_turn_off of the switch (slave, address), up to the
\* first suspension of hub.write_coil.
TurnCall(w, slave, address, value) == WriteCall(w, "write_coil", slave, address, value)

\* hub.write_coil returns to async_turn_on / async_turn_off, which goes on to
\* its end; was_on is self._is_on of the switch at that moment.
TurnResult(w, was_on, late, reconnect, outcome, drop) ==
    /\ writer[w].pc = "call"
    /\ writer[w].kind = "write_coil"
    /\ EnvCanonical(client, writer[w].live, late, reconnect, outcome, <<>>, drop)
    /\ reconnect \in Reconnects(client, writer[w].live, closing)
    /\ LET me == writer[w]
           r == pymodbus_call(client, me.live, FALSE, late, reconnect, outcome, <<>>, drop)
           ret == IF r.res = "raised" THEN "raised" ELSE write_coil_return(r.res)
       IN  /\ client' = r.client
           /\ locked' = LockAtExit(locked)
           /\ slave_data' = IF r.res # "raised"
                            THEN write_coil_cache(slave_data, me.slave, me.addr, me.value, r.res)
                            ELSE slave_data
           /\ ev' = [NoEvent EXCEPT
                        !.op = "turn", !.kind = me.kind,
                        !.slave = me.slave, !.addr = me.addr, !.value = me.value,
                        !.res = r.res, !.escaped = (r.res = "raised"), !.ret = ret,
                        !.was_on = was_on,
                        !.is_on = turn_is_on(was_on, me.value, ret)]
    /\ writer' = [writer EXCEPT ![w] = IdleWriter]
    /\ UNCHANGED <<connect_job, second, second_data, platform_task, second_task, second_setups, seen,
                   hub_state, hass_data, unsub_poll, closing, delay, waiters,
                   slaves_to_poll, callbacks, tick>>

\* The write of a switch returns, whatever the client did and whatever the
\* switch was showing.
TurnStep(w) ==
    \E was_on \in BOOLEAN, late \in Lates(client, writer[w].live),
       reconnect \in Reconnects(client, writer[w].live, closing) :
        \E outcome \in OutcomesFor(client, writer[w].live, late, reconnect) :
            \E drop \in DropsFor(client, outcome) :
                TurnResult(w, was_on, late, reconnect, outcome, drop)

\* The switches of one slave turned on and off while the hub polls it.
NextSwitch ==
    \/ PymodbusConnect("ok")
    \/ AsyncSetupEntry
    \/ RegisterSlaves(1, AllAddrs)
    \/ TimerFire(1)
    \/ LockGrant
    \/ PollStep(1)
    \/ \E w \in Writers, address \in WriteAddrs, value \in BOOLEAN :
          TurnCall(w, 1, address, value)
    \/ \E w \in Writers : TurnStep(w)

SpecSwitch == Init /\ [][NextSwitch]_vars

----------------------------------------------------------------------------
(* The keys of hass.data[DOMAIN].  Strings are sequences of characters.    *)

MaxKeyLen == 3    \* characters of a config entry's entry_id
MaxNameLen == 1   \* characters of a config entry's CONF_NAME

KeyChars == {"a", "1", "_"}
EntrySlaves == {1, 2, 10}

\* str() of a digit.
DigitChar(d) == <<"0", "1", "2", "3", "4", "5", "6", "7", "8", "9">>[d + 1]

\* str() of a non-negative integer, as the f-string formats the slave.
RECURSIVE FormatInt(_)
FormatInt(n) ==
    IF n < 10 THEN <<DigitChar(n)>>
    ELSE FormatInt(n \div 10) \o <<DigitChar(n % 10)>>

\* hub_id = f"{name}_{slave}"
HubId(name, slave) == name \o <<"_">> \o FormatInt(slave)

\* The config entries: entry_id is given by Home Assistant, name and slave
\* by the user.
Entries ==
    [entry_id : SeqsUpTo(KeyChars, MaxKeyLen) \ {<<>>},
     name : SeqsUpTo(KeyChars, MaxNameLen) \ {<<>>},
     slave : EntrySlaves]

\* The keys of hass.data[DOMAIN] when `entry` is the entry the hub was set up
\* for: async_setup_entry stores a hub under hub_id, async_unload_entry
\* pops hub_id.
StoredKeys(entry) == IF HubIdTaken THEN {HubId(entry.name, entry.slave)} ELSE {}

\* The switch platform's async_setup_entry for `entry`, run by the task that
\* a successful async_setup_entry created, whenever the loop comes to it:
\* the hub is looked up under entry.entry_id (KeyError when that key is not
\* there, be it that the hub is stored under another key or that it was
\* popped by an unload); the slave's addresses are registered with the hub
\* found and one switch per address subscribes.
SwitchSetupEntry(entry) ==
    /\ platform_task
    /\ platform_task' = FALSE
    /\ LET found == entry.entry_id \in StoredKeys(entry)
           mine == found /\ hass_data
       IN  /\ slaves_to_poll' =
                 IF mine
                 THEN register_slaves_to_poll(slaves_to_poll, entry.slave, AllAddrs)
                 ELSE slaves_to_poll
           /\ callbacks' =
                 IF mine
                 THEN callbacks \o [i \in 1..Len(AllAddrs) |-> Len(callbacks) + i]
                 ELSE callbacks
           /\ ev' = [NoEvent EXCEPT
                        !.op = "switch_setup", !.slave = entry.slave,
                        !.key = entry.entry_id,
                        !.hub_id = HubId(entry.name, entry.slave),
                        !.addrs = IF found THEN AllAddrs ELSE <<>>,
                        !.escaped = ~found]
    /\ UNCHANGED <<connect_job, second, second_data, second_task, second_setups, seen,
                   hub_state, hass_data, unsub_poll, client, closing, delay,
                   locked, waiters, slave_data, tick, writer>>

\* The same, run by a task that a successful async_setup_entry of the second
\* entry created: it acts on the hub stored under entry.entry_id, which is
\* the first entry's hub when that was stored after the second entry's.
SecondSwitchSetupEntry(entry) ==
    /\ second_task > 0
    /\ second_task' = second_task - 1
    /\ LET found == entry.entry_id \in StoredKeys(entry)
           first == found /\ hass_data
       IN  /\ slaves_to_poll' =
                 IF first
                 THEN register_slaves_to_poll(slaves_to_poll, entry.slave, AllAddrs)
                 ELSE slaves_to_poll
           /\ callbacks' =
                 IF first
                 THEN callbacks \o [i \in 1..Len(AllAddrs) |-> Len(callbacks) + i]
                 ELSE callbacks
           /\ ev' = [NoEvent EXCEPT
                        !.op = "switch_setup", !.slave = entry.slave,
                        !.key = entry.entry_id,
                        !.hub_id = HubId(entry.name, entry.slave),
                        !.addrs = IF found THEN AllAddrs ELSE <<>>,
                        !.escaped = ~found]
    /\ UNCHANGED <<connect_job, second, second_data, platform_task, second_setups, seen,
                   hub_state, hass_data, unsub_poll, client, closing, delay,
                   locked, waiters, slave_data, tick, writer>>

\* A config entry set up, its platform set up, and the entry unloaded.
NextEntry ==
    \/ \E outcome \in SetupOutcomes : PymodbusConnect(outcome)
    \/ AsyncSetupEntry
    \/ \E entry \in Entries : SwitchSetupEntry(entry)
    \/ AsyncUnloadEntry
    \/ CloseDone

SpecEntry == Init /\ [][NextEntry]_vars

\* Two config entries with the same hub_id: the setup of the second begun
\* at any moment of the life of the first entry's hub (while its connect is
\* awaited, while it is stored, after its unload), the platform's setup and
\* the unloads, while the timer of the first entry's hub goes on.
NextSecond ==
    \/ \E outcome \in SetupOutcomes : PymodbusConnect(outcome)
    \/ AsyncSetupEntry
    \/ SecondSetupEntry
    \/ SecondSetupReloaded
    \/ \E result \in ConnectResults : SecondSetupResumed(result)
    \/ \E entry \in Entries : SwitchSetupEntry(entry)
    \/ \E entry \in Entries : SecondSwitchSetupEntry(entry)
    \/ AsyncUnloadEntry
    \/ SecondUnloadEntry
    \/ CloseDone
    \/ TimerFire(1)
    \/ PollStep(1)

SpecSecond == Init /\ [][NextSecond]_vars

----------------------------------------------------------------------------
(* The claims. *)

\* The transactions on the wire: the executor jobs submitted and not yet
\* returned to the coroutine awaiting them.
OnWire ==
    {TickTask(t) : t \in {u \in Ticks : tick[u].pc = "call"}}
        \cup {WriterTask(w) : w \in {u \in Writers : writer[u].pc = "call"}}

ActiveTicks == {t \in Ticks : tick[t].pc # "idle"}

\* C1: in every reachable state at most one transaction started through
\* async_pymodbus_call is on the wire, and it holds the gate: a transaction
\* begins only after the one before it has returned.
C1_OneTransactionOnWire ==
    /\ Cardinality(OnWire) <= 1
    /\ OnWire # {} => locked

\* C1, its case: a poll read is on the wire while a write waits for the gate.
C1_Witness ==
    /\ \E t \in Ticks : tick[t].pc = "call"
    /\ \E w \in Writers : writer[w].pc = "wait"

\* C2 as stated: every mutation of the state cache is performed while the
\* wire gate is still held by the transaction that produced the value.
C2_CacheWrittenUnderGate == ev.wrote => ev.gate

\* C2 as amended: every mutation of the state cache is made by the poll tick
\* whose read has just returned, for the slave of that read, after the gate
\* has been released by that transaction and in the same step as its return,
\* while no other transaction is on the wire.
C2_CacheWrittenAtReturn ==
    [][slave_data' # slave_data =>
        \E t \in Ticks :
            /\ tick[t].pc = "call"
            /\ OnWire = {TickTask(t)}
            /\ locked
            /\ ev'.op = "poll" /\ ev'.wrote /\ ~ev'.gate
            /\ ev'.slave = slaves_to_poll[tick[t].idx].slave
            /\ ev'.slave \in DOMAIN slave_data'
            /\ slave_data' = StoreStates(slave_data, ev'.slave, slave_data'[ev'.slave])
            /\ OnWire' \subseteq {TickTask(t)}]_vars

\* C2, its case: a poll has stored its states with the gate released while
\* another request was queued for the gate.
C2_Witness == ev.op = "poll" /\ ev.wrote /\ ~ev.gate /\ waiters # <<>>

\* C3 as stated: at most one poll tick is active in every reachable state.
C3_NoOverlappingTicks == Cardinality(ActiveTicks) <= 1

\* The state cache's entry of a slave, the empty map when it has none.
CacheEntry(cache, slave) == IF slave \in DOMAIN cache THEN cache[slave] ELSE <<>>

\* C4 as stated: when the read of slave A in a tick yields no usable result
\* (None, or an exception), the cached state of A is exactly what it was
\* when that tick was started, and no subscriber is invoked.
C4_FailedPollLeavesCache ==
    [][\A t \in Ticks :
        (tick[t].pc = "call" /\ ev'.op = "poll" /\ ev'.res # "ok")
        => /\ CacheEntry(slave_data', ev'.slave) = CacheEntry(seen[t], ev'.slave)
           /\ ev'.notified = <<>>]_vars

\* C5 as stated: when the read of slave A fails and the tick has slaves
\* left after A, the tick goes on to request the next slave's read.
C5_FailedPollDoesNotStopTick ==
    [][\A t \in Ticks :
        (tick[t].pc = "call" /\ ev'.op = "poll" /\ ev'.res # "ok"
            /\ tick[t].idx < Len(slaves_to_poll))
        => (ev'.next = "read" /\ tick'[t].pc \in {"wait", "call"}
            /\ tick'[t].idx = tick[t].idx + 1)]_vars

\* C6 as stated: no exception escapes an invocation of async_poll_slaves.
C6_NoExceptionEscapesTick ==
    ~(ev.op \in {"tick_start", "tick_wake", "poll"} /\ ev.escaped)

\* C7 as stated: after write_coil(slave, address, value) has returned
\* success for a slave whose cache contains the address, the cache holds
\* value at (slave, address).
C7_WriteThenReadBack ==
    (/\ ev.op = "write" /\ ev.kind = "write_coil" /\ ev.ret = "true"
     /\ ev.slave \in DOMAIN slave_data
     /\ ev.addr \in DOMAIN slave_data[ev.slave])
    => slave_data[ev.slave][ev.addr] = ev.value

\* C8: a write, successful or failed, leaves the state cache as it was: it
\* creates no entry for a slave that has none and changes no entry.
C8_WriteLeavesCache ==
    [][ev'.op = "write" => slave_data' = slave_data]_vars

\* C8, its case: write_coil has returned success for a slave that has no
\* entry in the state cache.
C8_Witness ==
    /\ ev.op = "write" /\ ev.kind = "write_coil" /\ ev.ret = "true"
    /\ ev.slave \notin DOMAIN slave_data

\* C9 as stated: write_coil returns a boolean and never raises; it returns
\* true exactly when the transaction produced a valid response.
C9_WriteCoilReturnsBoolean ==
    (ev.op = "write" /\ ev.kind = "write_coil")
    => (ev.ret \in {"true", "false"} /\ (ev.ret = "true" <=> ev.res = "ok"))

\* C10: after a successful poll of slave S the cache entry of S is a map
\* whose keys are exactly start..start+count-1 of the window the request was
\* made with, whose value at start+i is bit i of the response when the
\* response has one and false otherwise.
C10_CacheIsDecodedWindow ==
    (ev.op = "poll" /\ ev.wrote) =>
        /\ ev.count >= 1
        /\ ev.slave \in DOMAIN slave_data
        /\ DOMAIN slave_data[ev.slave] = ev.start..(ev.start + ev.count - 1)
        /\ \A i \in 0..(ev.count - 1) :
              slave_data[ev.slave][ev.start + i] =
                  (i < Len(ev.bits) /\ ev.bits[i + 1])

\* C10, its case: the response of a successful poll has bits for some
\* addresses of the window and none for the others.
C10_Witness ==
    /\ ev.op = "poll" /\ ev.wrote
    /\ 0 < Len(ev.bits) /\ Len(ev.bits) < ev.count

\* C11 as stated: on every successful poll the cache is updated and then
\* every registered subscriber is invoked once, in registration order, before
\* the read of the next slave is started.
C11_EverySubscriberNotified ==
    (ev.op = "poll" /\ ev.wrote) =>
        /\ ev.slave \in DOMAIN slave_data
        /\ slave_data[ev.slave] = DecodeStates(ev.start, ev.count, ev.bits)
        /\ ev.notified = callbacks

\* C12 as stated: a tick issues one read for each registered slave, in the
\* order of registration.  The reads of a tick are those of the entries
\* 1..idx, in that order, so the tick has read every slave iff it ends with
\* idx at the last entry.
C12_TickReadsEverySlave ==
    [][\A t \in Ticks :
        (tick[t].pc # "idle" /\ tick'[t].pc = "idle")
        => tick[t].idx = Len(slaves_to_poll')]_vars

\* The entry of slave in the registry stp; the addresses it holds.
EntryOf(stp, slave) == stp[SlaveIndex(stp, slave)]
AddressesOf(stp, slave) ==
    IF SlaveIndex(stp, slave) = 0 THEN {} ELSE Elems(EntryOf(stp, slave).addresses)

\* The addresses the slave of the last registration held before that call
\* (the call appended ev.addrs to its list).
HeldBefore ==
    LET e == EntryOf(slaves_to_poll, ev.slave)
    IN  SubSeq(e.addresses, 1, Len(e.addresses) - Len(ev.addrs))

\* C13: after a registration of a non-empty list the slave holds the
\* addresses it held before together with the new ones, its window starts at
\* the smallest and ends at the largest of them, so count >= 1 and every
\* address it holds lies in start..start+count-1; a slave holding 5, 8 and 6
\* has the window start = 5, count = 4.
C13_WindowIsMinMax ==
    [][(ev'.op = "register" /\ ev'.addrs # <<>>) =>
        LET e == EntryOf(slaves_to_poll', ev'.slave)
            all == AddressesOf(slaves_to_poll, ev'.slave) \cup Elems(ev'.addrs)
        IN  /\ Elems(e.addresses) = all
            /\ e.start \in all
            /\ (e.start + e.count - 1) \in all
            /\ e.count >= 1
            /\ \A a \in all : e.start <= a /\ a < e.start + e.count
            /\ all = {5, 8, 6} => (e.start = 5 /\ e.count = 4)]_vars

\* C13, its case: the registrations 5, 8, 6 made for a slave in this order,
\* the last of them by a call of its own.
C13_Witness ==
    /\ ev.op = "register" /\ ev.addrs = <<6>>
    /\ EntryOf(slaves_to_poll, ev.slave).addresses = <<5, 8, 6>>
    /\ EntryOf(slaves_to_poll, ev.slave).start = 5
    /\ EntryOf(slaves_to_poll, ev.slave).count = 4

\* C14 as stated: registering addresses the slave already holds is a no-op,
\* the slave's collection of addresses and its window, and the registry
\* with them, are left exactly as they were.
C14_RegistrationIsNoOp ==
    [][(/\ ev'.op = "register" /\ ev'.addrs # <<>>
        /\ Elems(ev'.addrs) \subseteq AddressesOf(slaves_to_poll, ev'.slave))
       => slaves_to_poll' = slaves_to_poll]_vars

\* C15: no step removes a slave or an address from the registry, and a
\* window that exists only grows: the range after the step contains the
\* range before it.
C15_WindowOnlyGrows ==
    [][\A i \in 1..Len(slaves_to_poll) :
        /\ i <= Len(slaves_to_poll')
        /\ slaves_to_poll'[i].slave = slaves_to_poll[i].slave
        /\ Elems(slaves_to_poll[i].addresses) \subseteq Elems(slaves_to_poll'[i].addresses)
        /\ slaves_to_poll[i].start # NoKey =>
              /\ slaves_to_poll'[i].start # NoKey
              /\ slaves_to_poll'[i].start <= slaves_to_poll[i].start
              /\ slaves_to_poll'[i].start + slaves_to_poll'[i].count
                    >= slaves_to_poll[i].start + slaves_to_poll[i].count]_vars

\* C15, its case: the last registration widened a window that existed.
C15_Witness ==
    /\ ev.op = "register" /\ ev.addrs # <<>>
    /\ HeldBefore # <<>>
    /\ EntryOf(slaves_to_poll, ev.slave).count > SeqMax(HeldBefore) - SeqMin(HeldBefore) + 1

\* The hub has been torn down: the entry was set up and then unloaded.
TornDown == hub_state = "ready" /\ ~hass_data

\* C16 as stated: once the hub has been torn down no timer firing starts a
\* poll tick that issues a read.
C16_TeardownCancelsTimer ==
    ~(TornDown /\ ev.op = "tick_start" /\ ev.next = "read")

\* C17 as stated: async_close never runs while a transaction is on the wire,
\* and a transaction that started with a client completes with the client
\* reference still set.
C17_CloseWaitsForTransaction ==
    OnWire # {} =>
        /\ ~closing
        /\ \A t \in Ticks : (tick[t].pc = "call" /\ tick[t].live) => client # "none"
        /\ \A w \in Writers : (writer[w].pc = "call" /\ writer[w].live) => client # "none"

\* C18 as stated: after every request/response exchange has returned the
\* connection is closed.
C18_ConnectionReleased ==
    ev.op \in {"poll", "write"} => client # "open"

\* C18 as amended: the hub keeps one connection across transactions: after
\* an exchange that returned a valid response the connection is open (left
\* open, or reopened by that request when it found the socket closed) unless
\* the hub is being or has been closed, and the client reference is cleared
\* only by async_close.
C18_ConnectionKept ==
    [][/\ (ev'.op \in {"poll", "write"} /\ ev'.res = "ok" /\ client # "none" /\ ~closing)
            => client' = "open"
       /\ (client # "none" /\ client' = "none") => (closing /\ ~closing')]_vars

\* C18, its case: a write has returned a valid response after a poll had,
\* over the connection opened by the setup, and the connection is still open.
C18_Witness ==
    /\ ev.op = "write" /\ ev.res = "ok" /\ client = "open"
    /\ slave_data # <<>>

\* C19 as stated: every write_coil call eventually returns, and what it
\* returns is a boolean; every started poll tick eventually finishes.
C19_EveryCallReturnsBoolean ==
    /\ [][\A w \in Writers :
            (/\ writer[w].pc = "call" /\ writer[w].kind = "write_coil"
             /\ writer'[w].pc = "idle")
            => ev'.ret \in {"true", "false"}]_vars
    /\ \A w \in Writers : (writer[w].pc # "idle") ~> (writer[w].pc = "idle")
    /\ \A t \in Ticks : (tick[t].pc # "idle") ~> (tick[t].pc = "idle")

\* C20 as stated: when the connection kind is unsupported or the first
\* connection cannot be made, async_setup and async_setup_entry return
\* false, no poll timer is registered, the hub is not stored in hass.data
\* and the platform setup is not forwarded.
C20_FailedSetupStoresNothing ==
    (ev.op = "setup" /\ ev.res \in SetupOutcomes \ {"ok"})
        => (ev.ret = "false" /\ ~ev.escaped /\ ~unsub_poll /\ ~hass_data /\ ~ev.forwarded)

\* C21: crc16_fn computes the protocol's CRC16: its accumulator stays within
\* 0..0xFFFF after every byte of a sequence of bytes, its result is the
\* accumulator's low byte followed by its high byte, it agrees with the
\* checksum the protocol defines, and the empty sequence gives 0xFF, 0xFF.
C21_Crc16IsTheProtocolChecksum ==
    ev.op = "crc16" =>
        /\ \A n \in 0..Len(ev.data) :
              crc16_acc(SubSeq(ev.data, 1, n)) \in 0..65535
        /\ Len(ev.out) = 2
        /\ ev.out[1] \in Bytes /\ ev.out[2] \in Bytes
        /\ ev.out[1] + 256 * ev.out[2] = crc16_acc(ev.data)
        /\ ev.out = Checksum(ev.data)
        /\ ev.data = <<>> => ev.out = <<255, 255>>
        /\ ev.data = <<0>> => ev.out = <<191, 64>>
        /\ ev.data = <<255>> => ev.out = <<255, 0>>

C21_Witness ==
    /\ ev.op = "crc16"
    /\ Len(ev.data) = MaxDataLen
    /\ ev.out[1] # ev.out[2]

\* C22: a byte sequence followed by its crc16_fn checksum passes the
\* protocol's verification: the receiver reports no checksum mismatch, and
\* accepts the frame when the sequence is not empty.
C22_ChecksummedFrameVerifies ==
    ev.op = "crc16" =>
        /\ DecodeAndVerify(ev.data \o ev.out) # "ChecksumMismatch"
        /\ ev.data # <<>> => DecodeAndVerify(ev.data \o ev.out) = "ok"

C22_Witness ==
    /\ ev.op = "crc16"
    /\ Len(ev.data) >= 2
    /\ Len(ev.data \o ev.out) = Len(ev.data) + 2
    /\ DecodeAndVerify(ev.data \o ev.out) = "ok"

\* C24 as stated: a transaction sends its request only over a connection it
\* found open or reopened; one that starts on a closed connection attempts
\* the reconnect, and no transaction attempts more than one; when the
\* reconnect fails the transaction returns failure with nothing sent and the
\* connection closed, so that the next transaction attempts the reconnect
\* again; after a successful one it sends its request, unless the hub was
\* closed meanwhile.
C24_ReconnectOnFailure ==
    [][ev'.op = "call" =>
          /\ ev'.connects \in {0, 1}
          /\ client = "closed" => ev'.connects = 1
          /\ (client = "open" /\ ~closing) => ev'.connects = 0 /\ ev'.sent
          /\ ev'.sent => ev'.connects = 0 \/ ev'.reconnected
          /\ (ev'.connects = 1 /\ ~ev'.reconnected)
                => ev'.res = "none" /\ ~ev'.sent /\ client' # "open"
          /\ (ev'.reconnected /\ ~ev'.sent)
                => ev'.res = "raised" /\ client = "none"]_vars

\* C25: with a delay configured, a tick requests the read of its second or a
\* later slave only on waking from the delay, whatever the read before it
\* returned; with delay 0 a tick never sleeps.
C25_DelayBetweenConsecutiveReads ==
    [][\A t \in Ticks :
          /\ (/\ delay > 0
              /\ tick'[t].pc \in {"call", "wait"}
              /\ tick'[t].idx > 1
              /\ tick'[t].idx # tick[t].idx) => tick[t].pc = "sleep"
          /\ delay = 0 => tick'[t].pc # "sleep"]_vars

\* C26: the gate is served in arrival order: a request goes on the wire only
\* when nobody is queued for the gate or when it is the oldest of the queue,
\* and the queue only loses its head or gains a last element; so a write
\* queued during a tick runs before the reads that tick requests later.
C26_GateServesInArrivalOrder ==
    [][/\ \A t \in Ticks :
             (tick'[t].pc = "call" /\ (tick[t].pc # "call" \/ tick'[t].idx # tick[t].idx))
                => \/ waiters = <<>>
                   \/ Head(waiters) = TickTask(t) /\ tick[t].pc = "wait"
       /\ \A w \in Writers :
             (writer'[w].pc = "call" /\ writer[w].pc # "call")
                => \/ waiters = <<>>
                   \/ Head(waiters) = WriterTask(w) /\ writer[w].pc = "wait"
       /\ \/ waiters' = waiters
          \/ waiters # <<>> /\ waiters' = Tail(waiters)
          \/ Len(waiters') = Len(waiters) + 1
                /\ SubSeq(waiters', 1, Len(waiters)) = waiters]_vars

C26_Witness ==
    \E t \in Ticks, w \in Writers :
        /\ writer[w].pc = "call"
        /\ tick[t].pc = "wait"
        /\ tick[t].idx = 2
        /\ Len(slaves_to_poll) = 2

\* C27: every slave of the registry has a window: a start and a count of at
\* least 1.
C27_EverySlaveHasWindow ==
    \A i \in 1..Len(slaves_to_poll) :
        /\ slaves_to_poll[i].start # NoKey
        /\ slaves_to_poll[i].count # NoKey
        /\ slaves_to_poll[i].count >= 1

\* C28: a read of a tick that returns without an exception, with no subscriber
\* to raise one, is followed by the rest of the tick: the tick ends without an
\* error, whatever was registered while it was waiting, and ends only after
\* the last of the slaves it began with.
C28_RegistrationDoesNotBreakTick ==
    [][\A t \in Ticks :
          (/\ tick[t].pc = "call"
           /\ tick'[t].pc # "call" \/ tick'[t].idx # tick[t].idx
           /\ ev'.op = "poll"
           /\ ev'.res # "raised"
           /\ callbacks = <<>>)
             => /\ ~ev'.escaped
                /\ tick'[t].pc = "idle" => tick[t].idx >= tick[t].used]_vars

\* C29: after async_turn_on or async_turn_off the switch shows the commanded
\* value if write_coil returned success, and what it showed before if not.
C29_SwitchFollowsWriteResult ==
    ev.op = "turn" =>
        ev.is_on = (IF ev.ret = "true" THEN ev.value ELSE ev.was_on)

\* C30: the switch platform's setup of an entry that was set up finds the
\* entry's hub: the key it looks up is the key the hub is stored under.
C30_SwitchPlatformFindsHub ==
    ev.op = "switch_setup" => ev.key = ev.hub_id /\ ~ev.escaped

====
